---- MODULE Spec2Model ----
(***************************************************************************)
(* A model of src/src/merkle.rs: an append-only Merkle tree kept in one    *)
(* flat vector of hash slots (an in-order "left-packed binary tree").      *)
(*                                                                         *)
(* Byte vectors are records [len, sym]: len is the length the Rust slice   *)
(* has, sym identifies its content.  The digest S is modelled collision    *)
(* free: the content of a digest is the length-prefixed content of its     *)
(* input, so two digests are equal exactly when their inputs are.          *)
(* Positions are 0-based as in the source; slot p of the vector is         *)
(* tree[p + 1].                                                            *)
(***************************************************************************)
EXTENDS Integers, Sequences, FiniteSets, TLC

\* ---------------------------------------------------------------- bounds
MaxLeaves == 6
NumPayloads == 3
NumDistinct == 6
MaxSnapLeaves == 4
NumSnapPayloads == 2
UsizeBits == 12
MaxCfgN == 9
MaxCfgND == 17
MaxCfgD == 2

\* ------------------------------------------------------ program constants
LEAF_TAG == 1
NODE_TAG == 2
TestN == 32
TestND == 64
Sha256OutputSize == 32

VARIABLES cfg, status, tree, added, lastAdd, savedData, savedProof, savedRoot, savedFrom

vars == <<cfg, status, tree, added, lastAdd, savedData, savedProof, savedRoot, savedFrom>>

\* ------------------------------------------------------------ usize words
RECURSIVE Pow2(_)
Pow2(k) == IF k = 0 THEN 1 ELSE 2 * Pow2(k - 1)

UsizeMax == Pow2(UsizeBits) - 1

RECURSIVE BitAnd(_, _)
BitAnd(a, b) ==
    IF a = 0 \/ b = 0 THEN 0
    ELSE (a % 2) * (b % 2) + 2 * BitAnd(a \div 2, b \div 2)

RECURSIVE BitOr(_, _)
BitOr(a, b) ==
    IF a = 0 THEN b
    ELSE IF b = 0 THEN a
    ELSE (IF a % 2 = 1 \/ b % 2 = 1 THEN 1 ELSE 0) + 2 * BitOr(a \div 2, b \div 2)

BitNot(a) == UsizeMax - a

Shl(a, k) == (a * Pow2(k)) % (UsizeMax + 1)

Shr(a, k) == a \div Pow2(k)

\* usize::next_power_of_two: the smallest power of two >= n (1 for n = 0)
RECURSIVE NextPow2From(_, _)
NextPow2From(n, p) == IF p >= n THEN p ELSE NextPow2From(n, 2 * p)

next_power_of_two(n) == NextPow2From(n, 1)

\* Option<usize>::None, and an arithmetic underflow of usize
NoPos == -1
Underflow == -2

\* ------------------------------------------------------ index arithmetic
last_set_bit(n) == n - BitAnd(n - 1, n)

last_zero_bit(n) == last_set_bit(n + 1)

pbt_parent(n) == BitAnd(BitOr(last_zero_bit(n), n), BitNot(Shl(last_zero_bit(n), 1)))

pbt_left_child(n) ==
    IF n % 2 = 1 THEN BitAnd(n, BitNot(Shr(last_zero_bit(n), 1))) ELSE NoPos

pbt_right_child(n) ==
    IF n % 2 = 1
    THEN BitAnd(BitOr(n, last_zero_bit(n)), BitNot(Shr(last_zero_bit(n), 1)))
    ELSE NoPos

lpbt_root(size) == Shr(next_power_of_two(size + 1) - 1, 1)

pbt_leftmost_leaf(n) == BitAnd(n, n + 1)

\* lpbt_parent without the redirection of a parent that is not in the vector
lpbt_parent_no_redirect(n, size) ==
    IF n = lpbt_root(size) THEN NoPos ELSE pbt_parent(n)

lpbt_parent(n, size) ==
    IF n = lpbt_root(size) THEN NoPos
    ELSE LET p == pbt_parent(n)
         IN  IF p < size THEN p
             ELSE IF pbt_leftmost_leaf(n) = 0 THEN Underflow
             ELSE pbt_leftmost_leaf(n) - 1

\* lpbt_right_child whose redirection forgets the root of the remaining tail
lpbt_right_child_no_tail_root(n, size) ==
    IF n % 2 = 1
    THEN LET r == pbt_right_child(n)
         IN  IF r < size THEN r ELSE n + 1
    ELSE NoPos

lpbt_right_child(n, size) ==
    IF n % 2 = 1
    THEN LET r == pbt_right_child(n)
         IN  IF r < size THEN r
             ELSE IF size < n + 1 THEN Underflow
             ELSE n + 1 + lpbt_root(size - n - 1)
    ELSE NoPos

\* ------------------------------------------------------------ byte vectors
PANIC == [len |-> -2, sym |-> <<>>]

Raw(bytes) == [len |-> Len(bytes), sym |-> bytes]

Repeat(b, n) == [len |-> n, sym |-> [i \in 1..n |-> b]]

\* ---------------------------------------------------------------- hashing
hash(c, data) ==
    IF data = PANIC \/ c.N > c.D THEN PANIC
    ELSE [len |-> c.N, sym |-> <<Len(data.sym)>> \o data.sym]

concat_hash(c, first, second) ==
    IF first = PANIC \/ second = PANIC THEN PANIC
    ELSE IF c.N > c.ND \/ first.len # c.N \/ second.len # c.ND - c.N THEN PANIC
    ELSE hash(c, [len |-> c.ND, sym |-> first.sym \o second.sym])

tag_hash(c, tag, data) == concat_hash(c, Repeat(tag, c.N), hash(c, data))

\* ------------------------------------------------------------- the vector
Get(t, p) == IF p >= 0 /\ p < Len(t) THEN t[p + 1] ELSE PANIC

Set(t, p, v) == [t EXCEPT ![p + 1] = v]

\* the walk with the operands of concat_hash exchanged
RECURSIVE Walk_swapped(_, _, _, _)
Walk_swapped(c, t, parent, fuel) ==
    IF parent = NoPos THEN [tree |-> t, res |-> "ok"]
    ELSE IF parent = Underflow THEN [tree |-> t, res |-> "panic"]
    ELSE IF fuel = 0 THEN [tree |-> t, res |-> "diverge"]
    ELSE LET left == pbt_left_child(parent)
             right == lpbt_right_child(parent, Len(t))
         IN  IF left = NoPos \/ right = NoPos
             THEN [tree |-> t, res |-> "could not get children"]
             ELSE LET h == tag_hash(c, NODE_TAG, concat_hash(c, Get(t, right), Get(t, left)))
                  IN  IF right = Underflow \/ h = PANIC \/ parent >= Len(t)
                      THEN [tree |-> t, res |-> "panic"]
                      ELSE Walk_swapped(c, Set(t, parent, h),
                                        lpbt_parent(parent, Len(t)), fuel - 1)

\* the ancestor walk of lpbt_set (the while-let loop); fuel bounds the
\* number of iterations: the walk is a function of the position alone, so
\* one that outlives every position of the vector never ends
RECURSIVE Walk(_, _, _, _)
Walk(c, t, parent, fuel) ==
    IF parent = NoPos THEN [tree |-> t, res |-> "ok"]
    ELSE IF parent = Underflow THEN [tree |-> t, res |-> "panic"]
    ELSE IF fuel = 0 THEN [tree |-> t, res |-> "diverge"]
    ELSE LET left == pbt_left_child(parent)
             right == lpbt_right_child(parent, Len(t))
         IN  IF left = NoPos \/ right = NoPos
             THEN [tree |-> t, res |-> "could not get children"]
             ELSE LET h == tag_hash(c, NODE_TAG, concat_hash(c, Get(t, left), Get(t, right)))
                  IN  IF right = Underflow \/ h = PANIC \/ parent >= Len(t)
                      THEN [tree |-> t, res |-> "panic"]
                      ELSE Walk(c, Set(t, parent, h), lpbt_parent(parent, Len(t)), fuel - 1)

\* lpbt_set that writes the leaf at leaf_pos instead of leaf_pos * 2
lpbt_set_pos_not_doubled(c, t, leaf_pos, data) ==
    IF leaf_pos > Len(t) \div 2
    THEN [tree |-> t, res |-> "Leaf position out of bounds"]
    ELSE LET pos == leaf_pos
         IN  IF data = PANIC \/ pos >= Len(t) THEN [tree |-> t, res |-> "panic"]
             ELSE LET t1 == Set(t, pos, data)
                      parent == lpbt_parent(leaf_pos * 2, Len(t1))
                  IN  IF parent = NoPos THEN [tree |-> t1, res |-> "structural error"]
                      ELSE Walk(c, t1, parent, Len(t1) + 1)

\* lpbt_set whose walk leaves the root as it was
lpbt_set_root_not_updated(c, t, leaf_pos, data) ==
    IF leaf_pos > Len(t) \div 2
    THEN [tree |-> t, res |-> "Leaf position out of bounds"]
    ELSE LET pos == leaf_pos * 2
         IN  IF data = PANIC \/ pos >= Len(t) THEN [tree |-> t, res |-> "panic"]
             ELSE LET t1 == Set(t, pos, data)
                      parent == lpbt_parent(pos, Len(t1))
                      w == Walk(c, t1, parent, Len(t1) + 1)
                  IN  IF parent = NoPos THEN [tree |-> t1, res |-> "structural error"]
                      ELSE [tree |-> Set(w.tree, lpbt_root(Len(t1)), Get(t1, lpbt_root(Len(t1)))),
                            res |-> w.res]

lpbt_set(c, t, leaf_pos, data) ==
    IF leaf_pos > Len(t) \div 2
    THEN [tree |-> t, res |-> "Leaf position out of bounds"]
    ELSE LET pos == leaf_pos * 2
         IN  IF data = PANIC \/ pos >= Len(t) THEN [tree |-> t, res |-> "panic"]
             ELSE LET t1 == Set(t, pos, data)
                      parent == lpbt_parent(pos, Len(t1))
                  IN  IF parent = NoPos THEN [tree |-> t1, res |-> "structural error"]
                      ELSE Walk(c, t1, parent, Len(t1) + 1)

\* add whose first leaf is stored as the bare hash of the payload
add_first_untagged(c, t, data) ==
    IF t = <<>>
    THEN LET h == hash(c, data)
         IN  IF h = PANIC THEN [tree |-> t, res |-> "panic"]
             ELSE [tree |-> Append(t, h), res |-> "ok"]
    ELSE LET t2 == Append(Append(t, Repeat(0, c.N)), Repeat(0, c.N))
         IN  lpbt_set(c, t2, Len(t2) \div 2, tag_hash(c, LEAF_TAG, data))

add(c, t, data) ==
    IF t = <<>>
    THEN LET h == tag_hash(c, LEAF_TAG, data)
         IN  IF h = PANIC THEN [tree |-> t, res |-> "panic"]
             ELSE [tree |-> Append(t, h), res |-> "ok"]
    ELSE LET t2 == Append(Append(t, Repeat(0, c.N)), Repeat(0, c.N))
         IN  lpbt_set(c, t2, Len(t2) \div 2, tag_hash(c, LEAF_TAG, data))

root(t) ==
    IF lpbt_root(Len(t)) < Len(t)
    THEN [tag |-> "Some", val |-> t[lpbt_root(Len(t)) + 1]]
    ELSE [tag |-> "None", val |-> PANIC]

\* ------------------------------------------------------------------ proofs
ProofElement(h, d) == [hash |-> h, direction |-> d]

\* Vec::remove(i), i 0-based
RemoveAt(route, i) ==
    [j \in 1..(Len(route) - 1) |-> IF j <= i THEN route[j] ELSE route[j + 1]]

\* returns the bool of the source as found, the route as the call leaves it,
\* and whether an index was out of bounds
RECURSIVE create_proof_route(_, _, _, _)
create_proof_route(t, idx, h, route) ==
    IF idx < 0 \/ idx >= Len(t) THEN [found |-> FALSE, route |-> route, panic |-> TRUE]
    ELSE IF t[idx + 1] = h THEN [found |-> TRUE, route |-> route, panic |-> FALSE]
    ELSE LET left == pbt_left_child(idx)
             right == lpbt_right_child(idx, Len(t))
         IN  IF left = NoPos \/ right = NoPos
             THEN [found |-> FALSE, route |-> route, panic |-> FALSE]
             ELSE IF Get(t, right) = PANIC
             THEN [found |-> FALSE, route |-> route, panic |-> TRUE]
             ELSE LET r1 == Append(route, ProofElement(Get(t, right), "RIGHT"))
                      new_sz1 == Len(r1)
                      goLeft == create_proof_route(t, left, h, r1)
                  IN  IF goLeft.panic \/ goLeft.found THEN goLeft
                      ELSE LET r2 == RemoveAt(goLeft.route, new_sz1 - 1)
                               r3 == Append(r2, ProofElement(Get(t, left), "LEFT"))
                               new_sz2 == Len(r3)
                               goRight == create_proof_route(t, right, h, r3)
                           IN  IF goRight.panic \/ goRight.found THEN goRight
                               ELSE [found |-> FALSE,
                                     route |-> RemoveAt(goRight.route, new_sz2 - 1),
                                     panic |-> FALSE]

Reverse(s) == [i \in 1..Len(s) |-> s[Len(s) + 1 - i]]

\* create_proof that returns the route in the order of the search
create_proof_not_reversed(c, t, data) ==
    LET h == tag_hash(c, LEAF_TAG, data)
        r == create_proof_route(t, lpbt_root(Len(t)), h, <<>>)
    IN  IF h = PANIC \/ r.panic THEN [tag |-> "Panic", route |-> <<>>]
        ELSE IF r.found THEN [tag |-> "Some", route |-> r.route]
        ELSE [tag |-> "None", route |-> <<>>]

create_proof(c, t, data) ==
    LET h == tag_hash(c, LEAF_TAG, data)
        r == create_proof_route(t, lpbt_root(Len(t)), h, <<>>)
    IN  IF h = PANIC \/ r.panic THEN [tag |-> "Panic", route |-> <<>>]
        ELSE IF r.found THEN [tag |-> "Some", route |-> Reverse(r.route)]
        ELSE [tag |-> "None", route |-> <<>>]

RECURSIVE Fold(_, _, _, _)
Fold(c, proof, i, acc) ==
    IF i > Len(proof) THEN acc
    ELSE LET e == proof[i]
         IN  Fold(c, proof, i + 1,
                  tag_hash(c, NODE_TAG,
                           IF e.direction = "LEFT" THEN concat_hash(c, e.hash, acc)
                           ELSE concat_hash(c, acc, e.hash)))

\* verify_proof that compares the lengths of the two slices, not their bytes
verify_proof_compares_len(c, data, proof, to_match) ==
    LET generated == Fold(c, proof, 1, tag_hash(c, LEAF_TAG, data))
    IN  IF generated = PANIC THEN "panic"
        ELSE IF generated.len = to_match.len THEN "true" ELSE "false"

verify_proof(c, data, proof, to_match) ==
    LET generated == Fold(c, proof, 1, tag_hash(c, LEAF_TAG, data))
    IN  IF generated = PANIC THEN "panic"
        ELSE IF generated = to_match THEN "true" ELSE "false"

\* ----------------------------------------------------------------- inputs
Distinct(s) == \A i, j \in 1..Len(s) : i # j => s[i] # s[j]

InSeq(x, s) == \E i \in 1..Len(s) : s[i] = x

Payload(b) == Raw(<<b>>)

Payloads == {Payload(b) : b \in 1..NumPayloads}

SnapPayloads == {Payload(b) : b \in 1..NumSnapPayloads}

DistinctPayloads == {Payload(b) : b \in 1..NumDistinct}

TestCfg == [N |-> TestN, ND |-> TestND, D |-> Sha256OutputSize]

Cfgs == [N : 0..MaxCfgN, ND : 0..MaxCfgND, D : 1..MaxCfgD]

NoProof == [tag |-> "None", route |-> <<>>]
NoRoot == [tag |-> "None", val |-> PANIC]

\* ---------------------------------------------------------------- actions
\* MerkleTree::new: the two assertions, then an empty vector
new(c) == IF c.N < 8 * c.D /\ c.ND < 2 * 8 * c.D THEN "ready" ELSE "aborted"

InitWith(c) ==
    /\ cfg = c
    /\ status = "none"
    /\ tree = <<>>
    /\ added = <<>>
    /\ lastAdd = "none"
    /\ savedData = PANIC
    /\ savedProof = NoProof
    /\ savedRoot = NoRoot
    /\ savedFrom = <<>>

Init == InitWith(TestCfg)

InitCfg == \E c \in Cfgs : InitWith(c)

\* the owner constructs a tree (a first one, or a fresh one in place of the
\* old); values it took from an earlier tree stay with it
New ==
    /\ status \in {"none", "ready"}
    /\ status' = new(cfg)
    /\ tree' = <<>>
    /\ added' = <<>>
    /\ lastAdd' = "none"
    /\ UNCHANGED <<cfg, savedData, savedProof, savedRoot, savedFrom>>

AddWith(data) ==
    /\ status = "ready"
    /\ LET r == add(cfg, tree, data)
       IN  /\ tree' = r.tree
           /\ lastAdd' = r.res
           /\ added' = IF r.res = "ok" THEN Append(added, data) ELSE added
           /\ status' = IF r.res \in {"panic", "diverge"} THEN "panicked" ELSE status
    /\ UNCHANGED <<cfg, savedData, savedProof, savedRoot, savedFrom>>

Add == \E data \in Payloads : Len(added) < MaxLeaves /\ AddWith(data)

\* the caller appends payloads that are pairwise different
AddDistinct == \E data \in DistinctPayloads : ~InSeq(data, added) /\ AddWith(data)

SnapAdd == \E data \in SnapPayloads : Len(added) < MaxSnapLeaves /\ AddWith(data)

\* the caller asks for the proof of a payload and for the root, and keeps
\* both; the payload is the first one (the test asks for one fixed payload):
\* payloads enter the hashes only as digest inputs, so renaming them maps a
\* run with another payload to one of these
Snapshot ==
    LET data == Payload(1)
        proof == create_proof(cfg, tree, data)
    IN  /\ status = "ready"
        /\ tree # <<>>
        /\ proof.tag = "Some"
        /\ savedData' = data
        /\ savedProof' = proof
        /\ savedRoot' = root(tree)
        /\ savedFrom' = added
        /\ UNCHANGED <<cfg, status, tree, added, lastAdd>>

Next == New \/ Add

Spec == Init /\ [][Next]_vars

NextSnap == New \/ SnapAdd \/ Snapshot

SpecSnap == Init /\ [][NextSnap]_vars

NextDistinct == New \/ AddDistinct

SpecDistinct == Init /\ [][NextDistinct]_vars

NextCfg == New \/ Add

SpecCfg == InitCfg /\ [][NextCfg]_vars

\* ------------------------------------------------------- claim vocabulary
Size == Len(tree)

\* v is concat_hash of the block of tag and some N-byte vector
IsTagged(c, tag, v) ==
    /\ v.len = c.N
    /\ Len(v.sym) > c.N + 1
    /\ v = concat_hash(c, Repeat(tag, c.N),
                       [len |-> c.N, sym |-> SubSeq(v.sym, c.N + 2, Len(v.sym))])

\* C1: after a non-empty sequence of distinct payloads has been appended,
\* create_proof of every appended payload is present and verify_proof of the
\* payload, that proof and the root of the same state is true.
C1_ProofOfEveryLeafVerifies ==
    (status = "ready" /\ added # <<>> /\ Distinct(added)) =>
        \A i \in 1..Len(added) :
            LET proof == create_proof(cfg, tree, added[i])
            IN  /\ proof.tag = "Some"
                /\ root(tree).tag = "Some"
                /\ verify_proof(cfg, added[i], proof.route, root(tree).val) = "true"

\* five distinct payloads (a tree that is not perfect), the proof of the
\* fourth has both directions in it
C1_Witness ==
    /\ status = "ready"
    /\ Len(added) = 5
    /\ Distinct(added)
    /\ LET proof == create_proof(cfg, tree, added[4])
       IN  /\ proof.tag = "Some"
           /\ Len(proof.route) = 3
           /\ \E i, j \in 1..3 : proof.route[i].direction = "LEFT"
                              /\ proof.route[j].direction = "RIGHT"
           /\ verify_proof(cfg, added[4], proof.route, root(tree).val) = "true"

\* C2: in every tree reachable by zero or more adds, the empty one included,
\* create_proof of a payload never appended is None, and never an abort.
C2_AbsentForNeverAppended ==
    status = "ready" =>
        \A x \in Payloads :
            ~InSeq(x, added) => create_proof(cfg, tree, x).tag = "None"

\* C3: root() is None exactly when no leaf was appended; after one add(L)
\* it is tag_hash(LEAF_TAG, L); after any k >= 1 adds it is the slot at
\* lpbt_root(size).
C3_Root ==
    status = "ready" =>
        /\ (root(tree).tag = "None") <=> (added = <<>>)
        /\ Len(added) = 1 => root(tree).val = tag_hash(cfg, LEAF_TAG, added[1])
        /\ Len(added) >= 1 =>
               /\ root(tree).tag = "Some"
               /\ root(tree).val = Get(tree, lpbt_root(Size))
               /\ root(tree).val # PANIC

C3_Witness ==
    /\ status = "ready"
    /\ Len(added) = 6
    /\ lpbt_root(Size) = 7
    /\ root(tree).val = tree[8]
    /\ IsTagged(cfg, NODE_TAG, root(tree).val)

\* C4: every add ends and returns Ok: no bounds error, no structural error,
\* no ancestor without children, no abort, and the walk reaches the root.
C4_AddSucceeds == lastAdd \in {"none", "ok"} /\ status # "panicked"

C4_Witness == lastAdd = "ok" /\ Len(added) = 6 /\ Size = 11

\* C5: after k >= 1 appends the vector has 2k - 1 slots, slot 2i holds
\* tag_hash(LEAF_TAG, p_i) for every i < k, and every odd slot holds an
\* internal-node hash.
C5_Layout ==
    (status = "ready" /\ Len(added) >= 1) =>
        /\ Size = 2 * Len(added) - 1
        /\ \A i \in 0..(Len(added) - 1) :
               Get(tree, 2 * i) = tag_hash(cfg, LEAF_TAG, added[i + 1])
        /\ \A p \in 0..(Size - 1) :
               p % 2 = 1 => IsTagged(cfg, NODE_TAG, Get(tree, p))

C5_Witness ==
    /\ status = "ready"
    /\ Len(added) = 5
    /\ Size = 9
    /\ Get(tree, 0) = tag_hash(cfg, LEAF_TAG, added[1])
    /\ Get(tree, 8) = tag_hash(cfg, LEAF_TAG, added[5])
    /\ IsTagged(cfg, NODE_TAG, Get(tree, 7))

\* C6: new rejects every configuration with ND # 2 * N or N > D, so that
\* once a tree is constructed no hash or concat_hash aborts on a slice length.
C6_ConstructionRejectsIllFormed ==
    /\ status = "ready" => (cfg.ND = 2 * cfg.N /\ cfg.N <= cfg.D)
    /\ status # "panicked"

\* C7: for an appended payload L with its proof, and any payload X # L
\* (a leaf of the tree or not), verify_proof(X, proof, root()) is false; the
\* result is a boolean, never an abort.
C7_OtherPayloadRejected ==
    status = "ready" =>
        \A i \in 1..Len(added) :
            LET proof == create_proof(cfg, tree, added[i])
            IN  \A x \in Payloads \ {added[i]} :
                    verify_proof(cfg, x, proof.route, root(tree).val) = "false"

\* the proof of a leaf is tried with another leaf of the same tree and with
\* a payload that is no leaf
C7_Witness ==
    /\ status = "ready"
    /\ Len(added) = 5
    /\ \E x, y \in Payloads :
           /\ x # added[4] /\ InSeq(x, added)
           /\ y # added[4] /\ ~InSeq(y, added)
           /\ LET proof == create_proof(cfg, tree, added[4])
              IN  /\ proof.tag = "Some"
                  /\ verify_proof(cfg, x, proof.route, root(tree).val) = "false"
                  /\ verify_proof(cfg, y, proof.route, root(tree).val) = "false"

\* C8: a proof of L and the root R taken in state S: verify_proof(L, proof,
\* R) stays true whatever is appended later, and verify_proof(L, proof, R')
\* is false for the root R' of any other sequence of appended payloads.
C8_OtherRootRejected ==
    savedProof.tag = "Some" =>
        /\ verify_proof(cfg, savedData, savedProof.route, savedRoot.val) = "true"
        /\ (status = "ready" /\ root(tree).tag = "Some" /\ added # savedFrom) =>
               verify_proof(cfg, savedData, savedProof.route, root(tree).val) = "false"

IsPrefix(s, t) == Len(s) <= Len(t) /\ SubSeq(t, 1, Len(s)) = s

\* the tree the proof was taken from, extended by further appends
C8_Witness ==
    /\ savedProof.tag = "Some"
    /\ Len(savedProof.route) >= 2
    /\ status = "ready"
    /\ IsPrefix(savedFrom, added)
    /\ Len(added) > Len(savedFrom)
    /\ verify_proof(cfg, savedData, savedProof.route, savedRoot.val) = "true"
    /\ verify_proof(cfg, savedData, savedProof.route, root(tree).val) = "false"

\* C9: after every add, for k >= 2 leaves, every odd position p has both
\* children inside the vector, is the lpbt_parent of both, and holds
\* tag_hash(NODE_TAG, concat_hash(tree[left], tree[right])).
C9_InternalSlotsCurrent ==
    (status = "ready" /\ Len(added) >= 2) =>
        \A p \in 0..(Size - 1) :
            p % 2 = 1 =>
                LET left == pbt_left_child(p)
                    right == lpbt_right_child(p, Size)
                IN  /\ left >= 0 /\ left < Size
                    /\ right >= 0 /\ right < Size
                    /\ lpbt_parent(left, Size) = p
                    /\ lpbt_parent(right, Size) = p
                    /\ Get(tree, p) =
                           tag_hash(cfg, NODE_TAG,
                                    concat_hash(cfg, Get(tree, left), Get(tree, right)))
                    /\ Get(tree, p) # Repeat(0, cfg.N)

\* six leaves: position 7 was written for 5 leaves with right child 8 and has
\* right child 9 now; position 3 was not on the path of the last add
C9_Witness ==
    /\ status = "ready"
    /\ Len(added) = 6
    /\ lpbt_right_child(7, 9) = 8
    /\ lpbt_right_child(7, Size) = 9
    /\ Get(tree, 7) = tag_hash(cfg, NODE_TAG, concat_hash(cfg, Get(tree, 3), Get(tree, 9)))
    /\ Get(tree, 3) = tag_hash(cfg, NODE_TAG, concat_hash(cfg, Get(tree, 1), Get(tree, 5)))

\* the reference Merkle tree hash: the split is at the largest power of two
\* strictly less than the number of leaves
RECURSIVE SplitFrom(_, _)
SplitFrom(k, m) == IF 2 * m < k THEN SplitFrom(k, 2 * m) ELSE m

RECURSIVE MTH(_, _)
MTH(c, s) ==
    IF Len(s) = 1 THEN tag_hash(c, LEAF_TAG, s[1])
    ELSE LET m == SplitFrom(Len(s), 1)
         IN  tag_hash(c, NODE_TAG,
                      concat_hash(c, MTH(c, SubSeq(s, 1, m)),
                                     MTH(c, SubSeq(s, m + 1, Len(s)))))

\* the sequences one edit away: one payload replaced, two neighbours swapped,
\* the last payload dropped
Variants(s) ==
    ({[s EXCEPT ![i] = CHOOSE x \in Payloads : x # s[i]] : i \in 1..Len(s)}
       \cup {[s EXCEPT ![i] = s[i + 1], ![i + 1] = s[i]] : i \in 1..(Len(s) - 1)}
       \cup (IF Len(s) > 1 THEN {SubSeq(s, 1, Len(s) - 1)} ELSE {}))
    \ {s}

\* C10: after appending p_0..p_{k-1}, k >= 1, root() is MTH(p_0..p_{k-1});
\* a sequence that differs from the appended one has another MTH.
C10_RootIsMTH ==
    (status = "ready" /\ Len(added) >= 1) =>
        /\ root(tree).tag = "Some"
        /\ root(tree).val = MTH(cfg, added)
        /\ \A s \in Variants(added) : root(tree).val # MTH(cfg, s)

C10_Witness ==
    /\ status = "ready"
    /\ Len(added) = 6
    /\ SplitFrom(6, 1) = 4
    /\ root(tree).val = MTH(cfg, added)
    /\ \E s \in Variants(added) : Len(s) = 6

====
